---- MODULE Spec2Model ----
(***************************************************************************)
(* A model of garmin_export.py: the filename codec (get_date_string,       *)
(* sanitize_filename), the four format downloaders, download_activity,     *)
(* get_last_activity_date and the export pipeline of main.                 *)
(*                                                                         *)
(* Python strings are sequences of one-character strings, so that          *)
(* replace, split, slicing, strptime and strftime are computed character   *)
(* by character.  A Python value that may be missing from an activity      *)
(* record is a record [k, v]: k = "absent" (the key is not in the dict),   *)
(* k = "null" (the value is None) or k = "str" (v holds the string).       *)
(***************************************************************************)
EXTENDS Integers, Sequences, FiniteSets

VARIABLES
    format,         \* args.format
    all_flag,       \* args.all
    fetched,        \* what client.get_activities returns
    dir,            \* the names of the files in the output directory
    dir_state,      \* "ok", "missing" or "unreadable": how the directory lists
    pc,             \* the position of main
    last_date,      \* main's last_date: <<>> is None
    activities,     \* main's activities
    idx,            \* the loop index of main's for loop (1-based)
    success_count,  \* main's success_count
    status,         \* the value main returned: -1 while it runs
    cause,          \* where the exception that ended the run was raised
    attempted,      \* the activity ids download_activity was called with, in order
    results,        \* the value each of those calls returned
    fit_ret,        \* the last return of download_fit: <<>> or <<final, zip>>
    prev,           \* what the previous run left: see NoPrev
    sx,             \* the argument of sanitize_filename
    sy,             \* sanitize_filename(sx)
    syy,            \* sanitize_filename(sy)
    sphase          \* "in", "once", "twice"

vars == <<format, all_flag, fetched, dir, dir_state, pc, last_date, activities,
          idx, success_count, status, cause, attempted, results, fit_ret, prev,
          sx, sy, syy, sphase>>

pipeline_vars == <<format, all_flag, fetched, dir, dir_state, pc, last_date,
                   activities, idx, success_count, status, cause, attempted,
                   results, fit_ret, prev>>

sanitize_vars == <<sx, sy, syy, sphase>>

(***************************************************************************)
(* Strings                                                                 *)
(***************************************************************************)
Digits == <<"0", "1", "2", "3", "4", "5", "6", "7", "8", "9">>

IsDigit(c) == \E i \in 1..10 : Digits[i] = c

DigitVal(c) == (CHOOSE i \in 1..10 : Digits[i] = c) - 1

\* int(s) for a non-empty string of digits
RECURSIVE DigitsVal(_)
DigitsVal(s) ==
    IF Len(s) = 0 THEN 0
    ELSE DigitsVal(SubSeq(s, 1, Len(s) - 1)) * 10 + DigitVal(s[Len(s)])

AllDigits(s) == \A i \in 1..Len(s) : IsDigit(s[i])

\* str(n) for n >= 0
RECURSIVE str(_)
str(n) == IF n < 10 THEN <<Digits[n + 1]>> ELSE str(n \div 10) \o <<Digits[(n % 10) + 1]>>

\* the zero-padded field of strftime, '%02d' and '%04d'
RECURSIVE zfill(_, _)
zfill(s, width) == IF Len(s) >= width THEN s ELSE zfill(<<"0">> \o s, width)

\* s.find(c) + 1: the first index of c in s, 0 if there is none
find(s, c) ==
    IF \E i \in 1..Len(s) : s[i] = c
    THEN CHOOSE i \in 1..Len(s) : s[i] = c /\ \A j \in 1..(i - 1) : s[j] # c
    ELSE 0

\* s.split(sep) for a one-character sep
RECURSIVE split(_, _)
split(s, sep) ==
    LET i == find(s, sep)
    IN  IF i = 0 THEN <<s>>
        ELSE <<SubSeq(s, 1, i - 1)>> \o split(SubSeq(s, i + 1, Len(s)), sep)

\* s.replace(old, new) for one-character old and new
replace(s, old, new) == [i \in 1..Len(s) |-> IF s[i] = old THEN new ELSE s[i]]

endswith(s, suffix) ==
    /\ Len(s) >= Len(suffix)
    /\ SubSeq(s, Len(s) - Len(suffix) + 1, Len(s)) = suffix

Absent == [k |-> "absent", v |-> <<>>]
Null == [k |-> "null", v |-> <<>>]
Str(s) == [k |-> "str", v |-> s]

\* dict.get(key, default): the default only when the key is absent
get(field, default) == IF field.k = "absent" THEN Str(default) ELSE field

(***************************************************************************)
(* datetime.strptime and strftime                                          *)
(***************************************************************************)
IsLeap(y) == (y % 4 = 0 /\ y % 100 # 0) \/ y % 400 = 0

DaysIn(y, m) ==
    IF m = 2 THEN (IF IsLeap(y) THEN 29 ELSE 28)
    ELSE IF m \in {4, 6, 9, 11} THEN 30 ELSE 31

\* a field of one or two digits, as %m %d %H %M %S accept
Field2(s) == Len(s) \in {1, 2} /\ AllDigits(s)

\* datetime(y, m, d): the range checks of the constructor
date_of(y, m, d) ==
    IF y >= 1 /\ m \in 1..12 /\ d >= 1 /\ d <= DaysIn(y, m)
    THEN <<y, m, d, 0, 0, 0>>
    ELSE <<>>

\* the three fields '%Y-%m-%d' matches: four digits, then one or two, twice
date_of_fields(p) ==
    IF Len(p) = 3 /\ Len(p[1]) = 4 /\ AllDigits(p[1]) /\ Field2(p[2]) /\ Field2(p[3])
    THEN date_of(DigitsVal(p[1]), DigitsVal(p[2]), DigitsVal(p[3]))
    ELSE <<>>

\* strptime(s, '%Y-%m-%d'): <<y, m, d, 0, 0, 0>>, or <<>> for ValueError
strptime_date(s) == date_of_fields(split(s, "-"))

\* the date d with the time of day H:M:S
time_of(d, H, M, S) ==
    IF H \in 0..23 /\ M \in 0..59 /\ S \in 0..59
    THEN <<d[1], d[2], d[3], H, M, S>>
    ELSE <<>>

\* the date d with the three fields '%H:%M:%S' matches
time_of_fields(d, t) ==
    IF d # <<>> /\ Len(t) = 3 /\ Field2(t[1]) /\ Field2(t[2]) /\ Field2(t[3])
    THEN time_of(d, DigitsVal(t[1]), DigitsVal(t[2]), DigitsVal(t[3]))
    ELSE <<>>

\* the two parts around the space of '%Y-%m-%d %H:%M:%S'
datetime_of_parts(p) ==
    IF Len(p) = 2 THEN time_of_fields(strptime_date(p[1]), split(p[2], ":")) ELSE <<>>

\* strptime(s, '%Y-%m-%d %H:%M:%S'): <<y, m, d, H, M, S>>, or <<>> for ValueError
strptime_datetime(s) == datetime_of_parts(split(s, " "))

\* date_obj.strftime('%Y-%m-%d')
strftime_date(dt) ==
    zfill(str(dt[1]), 4) \o <<"-">> \o zfill(str(dt[2]), 2) \o <<"-">> \o zfill(str(dt[3]), 2)

\* a > b for two datetimes
RECURSIVE later_from(_, _, _)
later_from(a, b, i) ==
    IF i > Len(a) THEN FALSE
    ELSE IF a[i] # b[i] THEN a[i] > b[i]
    ELSE later_from(a, b, i + 1)

later(a, b) == later_from(a, b, 1)

\* max(dates) for a non-empty set of datetimes
max_date(dates) == CHOOSE d \in dates : \A e \in dates : ~later(e, d)

(***************************************************************************)
(* The filename codec                                                      *)
(***************************************************************************)
unknown_date == <<"u", "n", "k", "n", "o", "w", "n", "_", "d", "a", "t", "e">>
unknown_time == <<"u", "n", "k", "n", "o", "w", "n", " ", "t", "i", "m", "e">>
Unnamed == <<"U", "n", "n", "a", "m", "e", "d">>
Unnamed_Activity == Unnamed \o <<" ", "A", "c", "t", "i", "v", "i", "t", "y">>
epoch == <<"1", "9", "7", "0", "-", "0", "1", "-", "0", "1", " ",
           "0", "0", ":", "0", "0", ":", "0", "0">>
invalid_chars == <<"<", ">", ":", "\"", "/", "\\", "|", "?", "*">>

\* the slice bound of name[:50]
MaxNameLen == 50

\* get_date_string(start_time): start_time is a value [k, v]; the bare except
\* also catches the TypeError of a None
date_string_of(date_obj) ==
    IF date_obj # <<>> THEN strftime_date(date_obj) ELSE unknown_date

get_date_string(start_time) ==
    IF start_time.k = "str" THEN date_string_of(strptime_datetime(start_time.v))
    ELSE unknown_date

\* the for loop of sanitize_filename over invalid_chars[i..]
RECURSIVE replace_invalid(_, _)
replace_invalid(name, i) ==
    IF i > Len(invalid_chars) THEN name
    ELSE replace_invalid(replace(name, invalid_chars[i], "-"), i + 1)

\* the return without the slice
slice_forgotten(name) == IF Len(name) > 0 THEN name ELSE Unnamed

\* line 44: name[:50] if name else 'Unnamed'
slice_or_unnamed(name) ==
    IF Len(name) > 0
    THEN SubSeq(name, 1, IF Len(name) < MaxNameLen THEN Len(name) ELSE MaxNameLen)
    ELSE Unnamed

\* sanitize_filename(name) for a string
sanitize_filename(name) == slice_or_unnamed(replace(replace_invalid(name, 1), " ", "_"))

(***************************************************************************)
(* The format downloaders.  Each takes the directory d and what the        *)
(* client and the filesystem do for this call (outcome), and gives the     *)
(* directory it leaves, whether it raised, and the path it returned.       *)
(***************************************************************************)
ext_gpx == <<".", "g", "p", "x">>
ext_tcx == <<".", "t", "c", "x">>
ext_zip == <<".", "z", "i", "p">>
ext_fit == <<".", "f", "i", "t">>
ext_json == <<".", "j", "s", "o", "n">>
ext_full_json == <<"_", "f", "u", "l", "l">> \o ext_json

\* f'{date_str}{name_part}_{activity_id}{suffix}'
file_name(date_str, activity_name, activity_id, suffix) ==
    LET name_part == IF Len(activity_name) > 0 THEN <<"_">> \o activity_name ELSE <<>>
    IN  date_str \o name_part \o <<"_">> \o str(activity_id) \o suffix

Raised(d) == [dir |-> d, raised |-> TRUE, ret |-> <<>>, zip |-> <<>>]
Returned(d, filename) == [dir |-> d, raised |-> FALSE, ret |-> filename, zip |-> <<>>]

\* download_gpx that never overwrites: an existing name gets a "_1" before the
\* extension
download_gpx_keep(d, activity_id, date_str, activity_name, outcome) ==
    LET filename == file_name(date_str, activity_name, activity_id, ext_gpx)
        fresh == file_name(date_str, activity_name, activity_id, <<"_", "1">> \o ext_gpx)
    IN  IF outcome \in {"client_error", "io_error"} THEN Raised(d)
        ELSE IF filename \in d THEN Returned(d \cup {fresh}, fresh)
        ELSE Returned(d \cup {filename}, filename)

download_gpx(d, activity_id, date_str, activity_name, outcome) ==
    LET filename == file_name(date_str, activity_name, activity_id, ext_gpx)
    IN  IF outcome \in {"client_error", "io_error"} THEN Raised(d)
        ELSE Returned(d \cup {filename}, filename)

download_tcx(d, activity_id, date_str, activity_name, outcome) ==
    LET filename == file_name(date_str, activity_name, activity_id, ext_tcx)
    IN  IF outcome \in {"client_error", "decode_error", "io_error"} THEN Raised(d)
        ELSE Returned(d \cup {filename}, filename)

\* the name of the first entry of the archive the service sends
entry_name(activity_id) == str(activity_id) \o ext_fit

download_fit(d, activity_id, date_str, activity_name, outcome) ==
    LET zip_filename == file_name(date_str, activity_name, activity_id, ext_zip)
        final_filename == file_name(date_str, activity_name, activity_id, ext_fit)
        written == d \cup {zip_filename}
        extracted == written \cup {entry_name(activity_id)}
        renamed == (extracted \ {entry_name(activity_id)}) \cup {final_filename}
        ok(dd) == [dir |-> dd, raised |-> FALSE, ret |-> final_filename,
                   zip |-> zip_filename]
    IN  CASE outcome \in {"client_error", "io_error"} -> Raised(d)
          [] outcome = "zip" -> ok(renamed \ {zip_filename})
          [] outcome = "empty_zip" -> ok(written \ {zip_filename})
          [] outcome = "not_zip" -> ok((written \ {zip_filename}) \cup {final_filename})
          [] outcome = "extract_error" -> Raised(written)

download_json(d, activity_id, date_str, activity_name, outcome) ==
    LET filename == file_name(date_str, activity_name, activity_id, ext_json)
        json_full == file_name(date_str, activity_name, activity_id, ext_full_json)
    IN  CASE outcome \in {"client_error", "io_error"} -> Raised(d)
          [] outcome = "full_error" -> Raised(d \cup {filename})
          [] outcome = "ok" -> Returned(d \cup {filename, json_full}, filename)

fmt_gpx == <<"g", "p", "x">>
fmt_tcx == <<"t", "c", "x">>
fmt_fit == <<"f", "i", "t">>
fmt_json == <<"j", "s", "o", "n">>
Formats == {fmt_gpx, fmt_tcx, fmt_fit, fmt_json}

\* what the client and the filesystem can do during one download
Outcomes(format_type) ==
    CASE format_type = fmt_gpx -> {"ok", "client_error", "io_error"}
      [] format_type = fmt_tcx -> {"ok", "client_error", "decode_error", "io_error"}
      [] format_type = fmt_fit -> {"zip", "empty_zip", "not_zip", "client_error",
                                   "io_error", "extract_error"}
      [] format_type = fmt_json -> {"ok", "client_error", "full_error", "io_error"}

\* download_activity: ret is "True", "False", or "raise" when the exception
\* leaves the function (lines 103-108 are outside its try)
\* lines 114-121: the downloader of the format
dispatch(d, activity_id, date_str, safe_name, format_type, outcome) ==
    CASE format_type = fmt_gpx -> download_gpx(d, activity_id, date_str, safe_name, outcome)
      [] format_type = fmt_tcx -> download_tcx(d, activity_id, date_str, safe_name, outcome)
      [] format_type = fmt_fit -> download_fit(d, activity_id, date_str, safe_name, outcome)
      [] format_type = fmt_json -> download_json(d, activity_id, date_str, safe_name, outcome)

\* lines 112-128: the try around the downloader
tried(r, format_type) ==
    IF r.raised THEN [dir |-> r.dir, ret |-> "False", fit |-> <<>>]
    ELSE [dir |-> r.dir, ret |-> "True",
          fit |-> IF format_type = fmt_fit THEN <<r.ret, r.zip>> ELSE <<>>]

download_activity(d, activity, format_type, outcome) ==
    IF activity.activityType.k = "null" \/ activity.activityName.k = "null"
    THEN [dir |-> d, ret |-> "raise", fit |-> <<>>]
    ELSE tried(dispatch(d, activity.activityId,
                        get_date_string(get(activity.startTimeLocal, unknown_time)),
                        sanitize_filename(get(activity.activityName, Unnamed_Activity).v),
                        format_type, outcome),
               format_type)

(***************************************************************************)
(* The watermark resolver                                                  *)
(***************************************************************************)
\* list(output_dir.glob(f'*{format_ext}')): a missing or unreadable directory
\* lists nothing, or raises into the outer except, which returns None as well
glob(d, state, format_ext) ==
    IF state = "ok" THEN {f \in d : endswith(f, format_ext)} ELSE {}

\* lines 138-145: the dates of the names that parse
dates_of(files) == {strptime_date(split(f, "_")[1]) : f \in files} \ {<<>>}

\* min(dates) in the place of max(dates)
oldest_or_none(dates) ==
    IF dates = {} THEN <<>> ELSE CHOOSE x \in dates : \A e \in dates : ~later(x, e)

\* line 147: max(dates) if dates else None
max_or_none(dates) == IF dates = {} THEN <<>> ELSE max_date(dates)

\* get_last_activity_date(output_dir, format_ext): <<>> is None
get_last_activity_date(d, state, format_ext) == max_or_none(dates_of(glob(d, state, format_ext)))

(***************************************************************************)
(* The activity lists the service returns                                  *)
(***************************************************************************)
\* the longest list client.get_activities returns
MaxActs == 2

\* '2024-03-<day> 10:00:00'
Stamp(day) ==
    strftime_date(<<2024, 3, day>>) \o <<" ", "1", "0", ":", "0", "0", ":", "0", "0">>

My_Run == <<"M", "y", " ", "R", "u", "n">>
garbage == <<"g", "a", "r", "b", "a", "g", "e">>
Dict == [k |-> "dict", v |-> <<>>]

Record(name, type, start) ==
    [activityName |-> name, activityType |-> type, startTimeLocal |-> start]

\* the shapes of a record: three well-formed ones on consecutive days, one with
\* every optional key absent, and one per malformed field
Shapes ==
    { Record(Str(My_Run), Dict, Str(Stamp(14))),
      Record(Str(My_Run), Dict, Str(Stamp(15))),
      Record(Str(My_Run), Dict, Str(Stamp(16))),
      Record(Absent, Absent, Absent),
      Record(Null, Dict, Str(Stamp(15))),
      Record(Str(My_Run), Null, Str(Stamp(15))),
      Record(Str(My_Run), Dict, Str(garbage)),
      Record(Str(My_Run), Dict, Null) }

WithId(shape, id) ==
    [activityId |-> id, activityName |-> shape.activityName,
     activityType |-> shape.activityType, startTimeLocal |-> shape.startTimeLocal]

\* the lists of at most MaxActs records, the i-th with identifier i
ActivityLists ==
    UNION { { [i \in 1..n |-> WithId(f[i], i)] : f \in [1..n -> Shapes] } : n \in 0..MaxActs }

(***************************************************************************)
(* main                                                                    *)
(***************************************************************************)
\* the canonical file of an activity in a format, as download_activity names it
\* (an activity whose name is None gets no file at all)
canonical(a, format_type) ==
    IF a.activityName.k = "null" THEN {}
    ELSE {file_name(get_date_string(get(a.startTimeLocal, unknown_time)),
                    sanitize_filename(get(a.activityName, Unnamed_Activity).v),
                    a.activityId, <<".">> \o format_type)}

NoPrev == [ran |-> FALSE, status |-> -1, files |-> {}, lost |-> {}, exported |-> FALSE]

\* what a finished run leaves for the next one to be compared with: its status,
\* the export files in the directory (all but the temporary archives), the
\* activities it reported as failed and that have no canonical file, and
\* whether it reported a success
Summary ==
    [ran |-> TRUE, status |-> status, files |-> {f \in dir : ~endswith(f, ext_zip)},
     lost |-> {activities[i].activityId :
                 i \in {j \in 1..Len(results) :
                          ~results[j] /\ canonical(activities[j], format) \cap dir = {}}},
     exported |-> success_count > 0]

\* lines 263-266 when no strptime raises
filter_activities(acts, last) ==
    SelectSeq(acts, LAMBDA a : later(strptime_datetime(get(a.startTimeLocal, epoch).v), last))

\* whether the strptime of line 263 raises for this activity (TypeError for
\* None, ValueError for a string that does not match)
filter_raises(a) ==
    LET t == get(a.startTimeLocal, epoch)
    IN  t.k # "str" \/ strptime_datetime(t.v) = <<>>

Finish(code, why) ==
    /\ pc' = "done"
    /\ status' = code
    /\ cause' = why

\* lines 170-220: the arguments are parsed and the watermark resolved; a run
\* that follows another starts from the directory the other left
Begin ==
    /\ pc \in {"start", "done"}
    /\ prev' = IF pc = "done" THEN Summary ELSE prev
    /\ last_date' = IF all_flag THEN <<>>
                    ELSE get_last_activity_date(dir, dir_state, <<".">> \o format)
    /\ pc' = "connect"
    /\ status' = -1
    /\ cause' = "none"
    /\ activities' = <<>>
    /\ idx' = 0
    /\ success_count' = 0
    /\ attempted' = <<>>
    /\ results' = <<>>
    /\ fit_ret' = <<>>
    /\ UNCHANGED <<format, all_flag, fetched, dir, dir_state>>
    /\ UNCHANGED sanitize_vars

\* lines 222-248 and the handlers of lines 284-300
Connect ==
    /\ pc = "connect"
    /\ \E outcome \in {"ok", "auth_error", "conn_error"} :
          CASE outcome = "ok" -> pc' = "fetch" /\ UNCHANGED <<status, cause>>
            [] outcome = "auth_error" -> Finish(1, "auth")
            [] outcome = "conn_error" -> Finish(1, "conn")
    /\ UNCHANGED <<format, all_flag, fetched, dir, dir_state, last_date, activities,
                   idx, success_count, attempted, results, fit_ret, prev>>
    /\ UNCHANGED sanitize_vars

\* lines 250-258
Fetch ==
    /\ pc = "fetch"
    /\ \E outcome \in {"ok", "conn_error"} :
          CASE outcome = "conn_error" -> Finish(1, "fetch") /\ UNCHANGED activities
            [] outcome = "ok" ->
                 /\ activities' = fetched
                 /\ IF fetched = <<>> THEN Finish(0, "none")
                    ELSE pc' = "filter" /\ UNCHANGED <<status, cause>>
    /\ UNCHANGED <<format, all_flag, fetched, dir, dir_state, last_date,
                   idx, success_count, attempted, results, fit_ret, prev>>
    /\ UNCHANGED sanitize_vars

\* lines 260-275
Filter ==
    /\ pc = "filter"
    /\ IF last_date = <<>>
       THEN pc' = "loop" /\ UNCHANGED <<activities, status, cause>>
       ELSE IF \E i \in 1..Len(activities) : filter_raises(activities[i])
       THEN Finish(1, "filter") /\ UNCHANGED activities
       ELSE /\ activities' = filter_activities(activities, last_date)
            /\ IF activities' = <<>> THEN Finish(0, "none")
               ELSE pc' = "loop" /\ UNCHANGED <<status, cause>>
    /\ idx' = 1
    /\ success_count' = 0
    /\ UNCHANGED <<format, all_flag, fetched, dir, dir_state, last_date,
                   attempted, results, fit_ret, prev>>
    /\ UNCHANGED sanitize_vars

\* lines 278-279
count(n, ret) == IF ret = "True" THEN n + 1 ELSE n

\* lines 276-279: one turn of the for loop
Download ==
    /\ pc = "loop"
    /\ idx <= Len(activities)
    /\ \E outcome \in Outcomes(format) :
          \E r \in {download_activity(dir, activities[idx], format, outcome)} :
              /\ attempted' = Append(attempted, activities[idx].activityId)
              /\ dir' = r.dir
              /\ fit_ret' = r.fit
              /\ IF r.ret = "raise"
                 THEN /\ Finish(1, "record")
                      /\ UNCHANGED <<idx, success_count, results>>
                 ELSE /\ results' = Append(results, r.ret = "True")
                      /\ success_count' = count(success_count, r.ret)
                      /\ idx' = idx + 1
                      /\ UNCHANGED <<pc, status, cause>>
    /\ UNCHANGED <<format, all_flag, fetched, dir_state, last_date, activities, prev>>
    /\ UNCHANGED sanitize_vars

\* lines 281-282
Summarize ==
    /\ pc = "loop"
    /\ idx > Len(activities)
    /\ Finish(0, "none")
    /\ fit_ret' = <<>>
    /\ UNCHANGED <<format, all_flag, fetched, dir, dir_state, last_date, activities,
                   idx, success_count, attempted, results, prev>>
    /\ UNCHANGED sanitize_vars

SanitizeIdle ==
    /\ sx = <<>>
    /\ sy = <<>>
    /\ syy = <<>>
    /\ sphase = "idle"

RunIdle ==
    /\ pc = "start"
    /\ last_date = <<>>
    /\ activities = <<>>
    /\ idx = 0
    /\ success_count = 0
    /\ status = -1
    /\ cause = "none"
    /\ attempted = <<>>
    /\ results = <<>>
    /\ fit_ret = <<>>
    /\ prev = NoPrev

\* the command line, the service's list and an empty output directory
Init ==
    /\ format \in Formats
    /\ all_flag \in BOOLEAN
    /\ fetched \in ActivityLists
    /\ dir = {}
    /\ dir_state = "ok"
    /\ RunIdle
    /\ SanitizeIdle

Next == Begin \/ Connect \/ Fetch \/ Filter \/ Download \/ Summarize

Spec == Init /\ [][Next]_vars

(***************************************************************************)
(* Runs repeated over lists of well-formed records, of a record with every *)
(* optional key absent and of a record whose name is None                  *)
(***************************************************************************)
\* the longest list of the repeated runs
MaxRerunActs == 2

RerunShapes ==
    { Record(Str(My_Run), Dict, Str(Stamp(14))),
      Record(Str(My_Run), Dict, Str(Stamp(15))),
      Record(Absent, Absent, Absent),
      Record(Null, Dict, Str(Stamp(15))) }

RerunLists ==
    UNION { { [i \in 1..n |-> WithId(f[i], i)] : f \in [1..n -> RerunShapes] } :
            n \in 0..MaxRerunActs }

InitFull ==
    /\ format \in Formats
    /\ all_flag = TRUE
    /\ fetched \in RerunLists
    /\ dir = {}
    /\ dir_state = "ok"
    /\ RunIdle
    /\ SanitizeIdle

SpecFull == InitFull /\ [][Next]_vars

InitIncremental ==
    /\ format \in Formats
    /\ all_flag = FALSE
    /\ fetched \in RerunLists
    /\ dir = {}
    /\ dir_state = "ok"
    /\ RunIdle
    /\ SanitizeIdle

SpecIncremental == InitIncremental /\ [][Next]_vars

(***************************************************************************)
(* get_last_activity_date over a directory that other programs write to    *)
(***************************************************************************)
name_x == <<"x">>
name_y == <<"y">>

\* the names a directory may hold: exports of this program, among them the two
\* of the documented example and one filed under unknown_date, and files that
\* do not follow the naming convention
SomeNames ==
    { file_name(strftime_date(<<2024, 1, 1>>), name_x, 1, ext_fit),
      file_name(strftime_date(<<2024, 3, 15>>), name_y, 2, ext_fit),
      file_name(strftime_date(<<2024, 3, 16>>), name_x, 3, ext_gpx),
      file_name(unknown_date, name_x, 4, ext_fit),
      <<"n", "o", "t", "e", "s">> \o ext_fit,
      file_name(<<"2", "0", "2", "4", "-", "1", "3", "-", "0", "1">>, name_x, 5, ext_fit),
      file_name(<<"2", "0", "2", "4", "-", "4", "-", "5">>, name_x, 6, ext_fit),
      strftime_date(<<2024, 3, 17>>) \o ext_fit,
      file_name(strftime_date(<<2024, 3, 14>>), name_y, 7, ext_json),
      file_name(strftime_date(<<2024, 3, 14>>), name_y, 7, ext_full_json) }

InitResolve ==
    /\ format \in Formats
    /\ all_flag = FALSE
    /\ fetched = <<>>
    /\ dir = {}
    /\ dir_state \in {"ok", "missing", "unreadable"}
    /\ RunIdle
    /\ SanitizeIdle

\* another program creates a file in the directory
Touch ==
    /\ pc \in {"start", "resolved"}
    /\ dir_state # "missing"
    /\ \E f \in SomeNames \ dir : dir' = dir \cup {f}
    /\ pc' = "start"
    /\ last_date' = <<>>
    /\ UNCHANGED <<format, all_flag, fetched, dir_state, activities, idx, success_count,
                   status, cause, attempted, results, fit_ret, prev>>
    /\ UNCHANGED sanitize_vars

\* line 215: last_date = get_last_activity_date(output_dir, format_ext)
Resolve ==
    /\ pc = "start"
    /\ last_date' = get_last_activity_date(dir, dir_state, <<".">> \o format)
    /\ pc' = "resolved"
    /\ UNCHANGED <<format, all_flag, fetched, dir, dir_state, activities, idx,
                   success_count, status, cause, attempted, results, fit_ret, prev>>
    /\ UNCHANGED sanitize_vars

NextResolve == Touch \/ Resolve

SpecResolve == InitResolve /\ [][NextResolve]_vars

(***************************************************************************)
(* sanitize_filename applied once and again                                *)
(***************************************************************************)
\* the longest free prefix of an argument
MaxPrefix == 2

SanitizeAlphabet ==
    {"a", " ", "<", ">", ":", "\"", "/", "\\", "|", "?", "*"}

Pad(c, n) == [i \in 1..n |-> c]

\* a free prefix followed by nothing or by a run that reaches the slice bound
SanitizeInputs ==
    { p \o Pad(c, n) :
        p \in UNION { [1..k -> SanitizeAlphabet] : k \in 0..MaxPrefix },
        c \in {"b", "?"},
        n \in {0, MaxNameLen - 1, MaxNameLen, MaxNameLen + 1} }
    \cup {Unnamed, Unnamed_Activity, My_Run}

InitSanitize ==
    /\ format = fmt_fit
    /\ all_flag = FALSE
    /\ fetched = <<>>
    /\ dir = {}
    /\ dir_state = "ok"
    /\ RunIdle
    /\ sx \in SanitizeInputs
    /\ sy = <<>>
    /\ syy = <<>>
    /\ sphase = "in"

SanitizeOnce ==
    /\ sphase = "in"
    /\ sy' = sanitize_filename(sx)
    /\ sphase' = "once"
    /\ UNCHANGED <<sx, syy>>
    /\ UNCHANGED pipeline_vars

SanitizeAgain ==
    /\ sphase = "once"
    /\ syy' = sanitize_filename(sy)
    /\ sphase' = "twice"
    /\ UNCHANGED <<sx, sy>>
    /\ UNCHANGED pipeline_vars

NextSanitize == SanitizeOnce \/ SanitizeAgain

SpecSanitize == InitSanitize /\ [][NextSanitize]_vars

(***************************************************************************)
(* Properties                                                              *)
(***************************************************************************)
ids_of(acts) == [i \in 1..Len(acts) |-> acts[i].activityId]

Range(seq) == {seq[i] : i \in 1..Len(seq)}

\* the start timestamp of a is missing or does not parse
BadStamp(a) ==
    a.startTimeLocal.k # "str" \/ strptime_datetime(a.startTimeLocal.v) = <<>>

\* the start timestamp of a parses and is strictly later than the watermark
StartsLater(a, watermark) ==
    ~BadStamp(a) /\ later(strptime_datetime(a.startTimeLocal.v), watermark)

\* the files of the directory whose name ends with _{id}{suffix}
FilesOf(id, suffix) == {f \in dir : endswith(f, <<"_">> \o str(id) \o suffix)}

\* the export files of the directory: all but the temporary archives
ExportFiles == {f \in dir : ~endswith(f, ext_zip)}

\* C1: for every list that reaches the loop and every pattern of download
\* errors, a run that got past the filter ends normally having called
\* download_activity once for each activity, in the order of the list, and its
\* success count is the number of calls that returned True.
C1_LoopAttemptsAll ==
    (pc = "done" /\ cause \in {"none", "record"} /\ activities # <<>>) =>
        /\ status = 0
        /\ attempted = ids_of(activities)
        /\ Len(results) = Len(activities)
        /\ success_count = Cardinality({i \in 1..Len(results) : results[i]})

\* C2: a run returns 1 only if authentication, the connection or the fetch of
\* the list failed; nothing about a record and no download error does it.
C2_FatalOnlyBeforeList ==
    status = 1 => cause \in {"auth", "conn", "fetch"}

\* C3: a run that fetched the list dispatches exactly the activities that start
\* strictly later than the watermark, in order; all of them when there is no
\* watermark.  (A run ended by an exception of download_activity is left out.)
C3_DispatchedExactlyNewer ==
    (pc = "done" /\ cause \in {"none", "filter"}) =>
        attempted =
            ids_of(IF last_date = <<>> THEN fetched
                   ELSE SelectSeq(fetched, LAMBDA a : StartsLater(a, last_date)))

\* C4: an incremental run that follows an incremental run that exported
\* something downloads no activity whose canonical file was on disk when it
\* started.  (Stated for the activities whose timestamp parses, whose file
\* carries their date.)
C4_NoRedownload ==
    (~all_flag /\ prev.ran /\ prev.status = 0 /\ prev.exported) =>
        \A i \in 1..Len(attempted) :
            ~BadStamp(fetched[attempted[i]]) =>
                canonical(fetched[attempted[i]], format) \cap prev.files = {}

\* C5: whenever download_fit returned, the .fit file it returned is in the
\* directory and the .zip file of the activity is not.
C5_FitReturnedMeansFile ==
    fit_ret # <<>> => (fit_ret[1] \in dir /\ fit_ret[2] \notin dir)

\* C7: in an incremental run with a watermark, over a list with an activity
\* whose timestamp is missing or unparseable, the run is not ended by the
\* filter, that activity is not dispatched and every activity that starts
\* later than the watermark is; in a full export that ends normally the
\* activity is dispatched and, when it succeeds, filed under unknown_date.
C7_BadStampFiltered ==
    (pc = "done" /\ cause \in {"none", "filter"}) =>
        \A i \in 1..Len(fetched) :
            BadStamp(fetched[i]) =>
                /\ last_date # <<>> =>
                      /\ cause = "none"
                      /\ i \notin Range(attempted)
                      /\ \A j \in 1..Len(fetched) :
                            StartsLater(fetched[j], last_date) => j \in Range(attempted)
                /\ all_flag /\ status = 0 =>
                      /\ i \in Range(attempted)
                      /\ \A k \in 1..Len(results) :
                            (attempted[k] = i /\ results[k] /\ format # fmt_fit) =>
                                \E f \in FilesOf(i, <<".">> \o format) :
                                    SubSeq(f, 1, Len(unknown_date)) = unknown_date

AtMostOnePerPair ==
    \A i \in 1..Len(fetched) :
        /\ Cardinality(FilesOf(i, <<".">> \o format)) <= 1
        /\ Cardinality(FilesOf(i, ext_full_json)) <= 1

\* C8 as stated: after a full export that follows a full export, the directory
\* holds at most one canonical file per activity and format (for json exactly
\* the two siblings) and the same export files as after the run before.
C8_RerunSameFiles ==
    (all_flag /\ prev.ran /\ prev.status = 0 /\ pc = "done" /\ status = 0) =>
        /\ AtMostOnePerPair
        /\ ExportFiles = prev.files
        /\ format = fmt_json =>
              \A i \in 1..Len(fetched) :
                  Cardinality(FilesOf(i, ext_json)) = Cardinality(FilesOf(i, ext_full_json))

\* C8 as amended: in full exports the directory holds at most one canonical
\* file per activity and format (for json at most one of each sibling), and
\* every export file the run before left is still there.
C8_RerunKeepsFiles ==
    all_flag =>
        /\ AtMostOnePerPair
        /\ prev.ran => prev.files \subseteq dir

\* a second full export ended normally over files the first one wrote
C8_RerunWitness ==
    /\ all_flag /\ prev.ran /\ prev.status = 0 /\ prev.exported /\ prev.files # {}
    /\ pc = "done" /\ status = 0 /\ success_count > 0

\* C10: an incremental run that follows an incremental run dispatches
\* every activity the run before reported as failed and left without a file.
\* (Stated for the activities whose timestamp parses and the runs that end
\* normally.)
C10_FailedRetried ==
    (~all_flag /\ prev.ran /\ prev.status = 0 /\ pc = "done" /\ status = 0) =>
        \A id \in prev.lost : ~BadStamp(fetched[id]) => id \in Range(attempted)

\* the date the name f decodes to: the text before its first underscore parsed
\* as %Y-%m-%d, <<>> when there is no underscore or the text does not parse
DecodeDate(f) ==
    IF find(f, "_") = 0 THEN <<>> ELSE strptime_date(SubSeq(f, 1, find(f, "_") - 1))

\* the files the scan reads: those of a listable directory that end with the
\* extension
Matching == {f \in dir : dir_state = "ok" /\ endswith(f, <<".">> \o format)}

\* C6: get_last_activity_date returns None exactly when no matching file
\* decodes (an empty, missing or unreadable directory among the cases), else
\* the latest of the decoded dates, and it returns the same for the directory
\* without its undecodable files.
C6_LatestDecodedDate ==
    pc = "resolved" =>
        /\ last_date = <<>> <=> \A f \in Matching : DecodeDate(f) = <<>>
        /\ last_date # <<>> =>
              /\ \E f \in Matching : DecodeDate(f) = last_date
              /\ \A f \in Matching : ~later(DecodeDate(f), last_date)
        /\ last_date = get_last_activity_date({f \in dir : DecodeDate(f) # <<>>},
                                              dir_state, <<".">> \o format)

\* the documented example: 2024-01-01_x_1.fit and 2024-03-15_y_2.fit, beside a
\* file under unknown_date and one without an underscore, resolve to 2024-03-15
C6_ExampleWitness ==
    /\ pc = "resolved" /\ format = fmt_fit /\ dir_state = "ok"
    /\ last_date = <<2024, 3, 15, 0, 0, 0>>
    /\ file_name(strftime_date(<<2024, 1, 1>>), name_x, 1, ext_fit) \in dir
    /\ file_name(unknown_date, name_x, 4, ext_fit) \in dir
    /\ (strftime_date(<<2024, 3, 17>>) \o ext_fit) \in dir

Forbidden == {invalid_chars[i] : i \in 1..Len(invalid_chars)} \cup {" "}

SanitizedWell ==
    /\ Len(sy) <= MaxNameLen
    /\ \A i \in 1..Len(sy) : sy[i] \notin Forbidden
    /\ sphase = "twice" => syy = sy

\* C9 as stated: the result of sanitize_filename is a fixed point of it, is at
\* most 50 long, holds no forbidden character and no space, and is 'Unnamed'
\* exactly when the argument is empty.
C9_SanitizeUnnamedIffEmpty ==
    sphase \in {"once", "twice"} =>
        /\ SanitizedWell
        /\ sy = Unnamed <=> sx = <<>>

\* C9 as amended: the same, the result being 'Unnamed' exactly when the
\* argument is empty or is 'Unnamed' itself.
C9_SanitizeIdempotent ==
    sphase \in {"once", "twice"} =>
        /\ SanitizedWell
        /\ sy = Unnamed <=> (sx = <<>> \/ sx = Unnamed)

\* an argument longer than the slice bound, with a forbidden character and a
\* space, sanitized twice
C9_LongWitness ==
    /\ sphase = "twice"
    /\ Len(sx) > MaxNameLen
    /\ \E i \in 1..Len(sx) : sx[i] = " "
    /\ \E i \in 1..Len(sx) : sx[i] = "?"

====
